---- MODULE Spec2Model ----
(***************************************************************************)
(* Model of src/bot.py: the chat-info bot.                                 *)
(*                                                                         *)
(* The model covers the supervisor loop of main(), the dispatch of one     *)
(* update to the registered handlers, the handlers themselves, the report  *)
(* built by build_chat_info, and the error reporter handle_error with      *)
(* notify_owner.                                                           *)
(*                                                                         *)
(* Conventions                                                             *)
(*   Optional[T]    a sequence of length <= 1: <<>> is None, <<v>> is v.   *)
(*   Optional[bool] one of the strings "True", "False", "None".            *)
(*   exceptions     the class name as a string; "none" is normal return.   *)
(*   a report line  a record [tag, n, items, more, text]; the tag names    *)
(*                  the f-string of the source that produced the line.     *)
(***************************************************************************)
EXTENDS Integers, Sequences, FiniteSets, TLC

VARIABLES
    OWNER_ID_RAW,   \* os.getenv("OWNER_ID"), line 28
    OWNER_ID,       \* the parsed operator identity, lines 29-33
    pc,             \* position of main() in its while loop, lines 391-402
    polls,          \* number of calls of dp.start_polling so far
    cycle,          \* what the except branch did for the failure being handled
    interrupted,    \* a KeyboardInterrupt has been raised
    stoppedIn,      \* the position at which the loop was left ("none" before)
    last,           \* the update dispatched last in this run of start_polling
    prevRaised      \* the handler of the update before `last` raised

vars == <<OWNER_ID_RAW, OWNER_ID, pc, polls, cycle, interrupted, stoppedIn,
          last, prevRaised>>

(***************************************************************************)
(* Bounds of the model.                                                    *)
(***************************************************************************)
MaxPolls == 3
MaxAdmins == 7
MaxEntities == 2
MaxCaptionEntities == 1

(***************************************************************************)
(* Python values.                                                          *)
(***************************************************************************)
None == <<>>

Some(v) == <<v>>

\* Truth value of an Optional[int]: None and 0 are false.
Truthy(opt) == opt # None /\ opt[1] # 0

\* Truth value of an Optional[bool].
IsTrue(tri) == tri = "True"

TelegramErrors == {"TelegramForbiddenError", "TelegramBadRequest", "TelegramNetworkError"}

\* isinstance(exc, Exception): KeyboardInterrupt derives from BaseException only.
IsException(kind) == kind \in TelegramErrors \cup {"RuntimeError", "ValueError"}

Digits == <<"0", "1", "2", "3", "4", "5", "6", "7", "8", "9">>

IsDigit(c) == \E i \in 1..Len(Digits) : Digits[i] = c

DigitVal(c) == (CHOOSE i \in 1..Len(Digits) : Digits[i] = c) - 1

RECURSIVE DigitsValue(_)
DigitsValue(ds) ==
    IF ds = <<>> THEN 0
    ELSE 10 * DigitsValue(SubSeq(ds, 1, Len(ds) - 1)) + DigitVal(ds[Len(ds)])

\* int(s) for a string s given as its characters: an optional sign and at least
\* one digit; anything else raises ValueError.
int(s) ==
    LET signed == s # <<>> /\ s[1] \in {"-", "+"}
        ds == IF signed THEN Tail(s) ELSE s
        ok == ds # <<>> /\ \A i \in 1..Len(ds) : IsDigit(ds[i])
    IN IF ~ok THEN [raised |-> "ValueError", val |-> 0]
       ELSE [raised |-> "none",
             val |-> IF signed /\ s[1] = "-" THEN 0 - DigitsValue(ds) ELSE DigitsValue(ds)]

\* Lines 28-33: OWNER_ID = int(raw) if raw else None; ValueError gives None.
ParseOwnerId(raw) ==
    IF raw = None \/ raw[1] = <<>> THEN None
    ELSE LET r == int(raw[1])
         IN IF r.raised = "none" THEN Some(r.val) ELSE None

\* The values of the OWNER_ID environment variable the model starts from.
OwnerRaws ==
    { None, Some(<<>>), Some(<<"a", "b">>), Some(<<"4", "a">>), Some(<<"0">>),
      Some(<<"4", "2">>), Some(<<"-", "7">>) }

(***************************************************************************)
(* notify_owner, lines 44-51.  `send` is how bot.send_message ends: "ok"   *)
(* or the exception it raises.                                             *)
(***************************************************************************)
SendOutcomes == {"ok", "TelegramNetworkError", "TelegramForbiddenError", "KeyboardInterrupt"}

notify_owner_unguarded(owner, send) ==
    IF ~Truthy(owner) THEN [attempts |-> 0, delivered |-> FALSE, raised |-> "none"]
    ELSE IF send = "ok" THEN [attempts |-> 1, delivered |-> TRUE, raised |-> "none"]
    ELSE [attempts |-> 1, delivered |-> FALSE, raised |-> send]

notify_owner_catch_all(owner, send) ==
    IF ~Truthy(owner) THEN [attempts |-> 0, delivered |-> FALSE, raised |-> "none"]
    ELSE IF send = "ok" THEN [attempts |-> 1, delivered |-> TRUE, raised |-> "none"]
    ELSE [attempts |-> 1, delivered |-> FALSE, raised |-> "none"]

notify_owner(owner, send) ==
    IF ~Truthy(owner) THEN [attempts |-> 0, delivered |-> FALSE, raised |-> "none"]
    ELSE IF send = "ok" THEN [attempts |-> 1, delivered |-> TRUE, raised |-> "none"]
    ELSE IF IsException(send)
         THEN [attempts |-> 1, delivered |-> FALSE, raised |-> "none"]   \* logged
         ELSE [attempts |-> 1, delivered |-> FALSE, raised |-> send]

(***************************************************************************)
(* Field renderers and the report of build_chat_info, lines 36-266.        *)
(***************************************************************************)
Line(tag, n, items, more, text) ==
    [tag |-> tag, n |-> n, items |-> items, more |-> more, text |-> text]

\* Lines 36-41.
yes_no(value) ==
    IF value = "True" THEN "yes" ELSE IF value = "False" THEN "no" ELSE "unknown"

\* Lines 54-80, for the attributes the model gives a user.
format_user(user) ==
    << Line("ID", user.id, <<>>, 0, ""),
       Line("Bot", 0, <<>>, 0, yes_no(user.is_bot)) >>

\* Default of the parameter `limit` of format_admins, line 83.
AdminLimit == 6

Min(a, b) == IF a < b THEN a ELSE b

\* Lines 83-92.  An admin is given by its user id; `items` are the admins shown,
\* `more` the overflow count (0 when nothing is cut).
format_admins(admins, limit) ==
    IF admins = <<>> THEN Line("admins_unavailable", 0, <<>>, 0, "")
    ELSE Line("admins", Len(admins), SubSeq(admins, 1, Min(limit, Len(admins))),
              IF Len(admins) > limit THEN Len(admins) - limit ELSE 0, "")

\* How a call of the platform API ends: raised = "none" and a value, or the
\* exception raised.
Returned(v) == [raised |-> "none", value |-> v]

Raised(kind) == [raised |-> kind, value |-> None]

\* Lines 142-149: the value is an Optional[int].
safe_get_member_count(outcome) ==
    IF outcome.raised = "none" THEN outcome
    ELSE IF outcome.raised \in {"TelegramForbiddenError", "TelegramBadRequest"}
         THEN Returned(None)
         ELSE outcome

\* Lines 152-159: the value is the list of admins.
safe_get_admins(outcome) ==
    IF outcome.raised = "none" THEN outcome
    ELSE IF outcome.raised \in {"TelegramForbiddenError", "TelegramBadRequest"}
         THEN Returned(<<>>)
         ELSE outcome

fetch_topic_info_silent(thread_id, message) ==
    IF message # None /\ message[1].reply_to_message # None
       /\ message[1].reply_to_message[1].forum_topic_created # None
    THEN LET created == message[1].reply_to_message[1].forum_topic_created[1]
         IN << Line("topic", 0, <<>>, 0, created.name),
               Line("thread_id", thread_id, <<>>, 0, "") >>
    ELSE <<>>

\* Lines 226-266.  The name line reads "unnamed" for an empty name.
fetch_topic_info(thread_id, message) ==
    LET topic_data ==
            IF message # None /\ message[1].reply_to_message # None
               /\ message[1].reply_to_message[1].forum_topic_created # None
            THEN message[1].reply_to_message[1].forum_topic_created
            ELSE None
    IN IF topic_data = None
       THEN << Line("topic_details_unavailable", thread_id, <<>>, 0, "") >>
       ELSE LET created == topic_data[1]
            IN << Line("topic", 0, <<>>, 0,
                       IF created.name # "" THEN created.name ELSE "unnamed"),
                  Line("thread_id", thread_id, <<>>, 0, "") >>
               \o (IF created.icon_color # None
                   THEN << Line("icon_color", created.icon_color[1], <<>>, 0, "") >>
                   ELSE <<>>)
               \o (IF created.icon_custom_emoji_id # None
                      /\ created.icon_custom_emoji_id[1] # ""
                   THEN << Line("icon_emoji", 0, <<>>, 0, created.icon_custom_emoji_id[1]) >>
                   ELSE <<>>)

\* Lines 162-223.  `api` holds how the three fetches end; thread_id is an
\* Optional[int], message an Optional[Message].  The result is the report
\* (value) or the exception that leaves build_chat_info.  Of the optional
\* attributes of the chat the model carries is_forum.
build_chat_info(api, thread_id, is_topic_message, message) ==
    IF api.get_chat.raised # "none" THEN Raised(api.get_chat.raised)
    ELSE
    LET chat == api.get_chat.value[1]
        mc == safe_get_member_count(api.member_count)
        ad == safe_get_admins(api.admins)
    IN IF mc.raised # "none" THEN Raised(mc.raised)
       ELSE IF ad.raised # "none" THEN Raised(ad.raised)
       ELSE Returned(
              << Line("ID", chat.id, <<>>, 0, ""),
                 Line("type", 0, <<>>, 0, chat.type),
                 Line("forum_enabled", 0, <<>>, 0, yes_no(chat.is_forum)) >>
              \o (IF mc.value # None
                  THEN << Line("member_count", mc.value[1], <<>>, 0, "") >>
                  ELSE <<>>)
              \o << format_admins(ad.value, AdminLimit) >>
              \o (IF IsTrue(chat.is_forum)
                  THEN IF is_topic_message /\ Truthy(thread_id)
                       THEN fetch_topic_info(thread_id[1], message)
                       ELSE << Line("topic_guidance", 0, <<>>, 0, "") >>
                  ELSE <<>>))

(***************************************************************************)
(* Messages.  A message is                                                 *)
(*   [observer, chat, command, from_user, entities, caption_entities,      *)
(*    is_topic_message, message_thread_id, reply_to_message]               *)
(* observer is the update type that carries it ("message" or               *)
(* "channel_post"); command is the command the Command filters find in its *)
(* text ("none" when there is none).                                       *)
(***************************************************************************)
ChatTypes == {"private", "group", "supergroup", "channel"}

Commands == {"none", "start", "info"}

Entity(type, id) == [type |-> type, custom_emoji_id |-> id]

\* Lines 125-139.  An absent list and an empty list are both skipped.
extract_custom_emoji_ids(message) ==
    LET entities == (IF message.entities # <<>> THEN message.entities ELSE <<>>)
                    \o (IF message.caption_entities # <<>>
                        THEN message.caption_entities ELSE <<>>)
        Keep(e) == e.type = "custom_emoji" /\ e.custom_emoji_id # None
                   /\ e.custom_emoji_id[1] # ""
        kept == SelectSeq(entities, Keep)
    IN [i \in 1..Len(kept) |-> kept[i].custom_emoji_id[1]]

\* list(dict.fromkeys(ids)): the first occurrence of each id, in order.
RECURSIVE unique(_)
unique(ids) ==
    IF ids = <<>> THEN <<>>
    ELSE LET init == unique(SubSeq(ids, 1, Len(ids) - 1))
             x == ids[Len(ids)]
         IN IF \E i \in 1..Len(init) : init[i] = x THEN init ELSE Append(init, x)

\* An outgoing message to the chat of the request.
Out(kind, lines, ids) == [kind |-> kind, lines |-> lines, ids |-> ids]

\* A call of build_chat_info: its result r and the arguments it was given.
Built(r, thread_id, is_topic_message, message) ==
    [raised |-> r.raised, value |-> r.value, thread_id |-> thread_id,
     is_topic_message |-> is_topic_message, message |-> message]

\* What a handler of one update did: the messages sent to the chat, the
\* exception that left it, whether the message was scanned for custom emoji,
\* and the call of build_chat_info when there was one (None otherwise).
Done(sent, raised, scanned, built) ==
    [sent |-> sent, raised |-> raised, scanned |-> scanned, built |-> built]

\* await message.answer(text): api.answer is "ok" or the exception raised.
answer(api, out, scanned, built) ==
    IF api.answer = "ok" THEN Done(<<out>>, "none", scanned, built)
    ELSE Done(<<>>, api.answer, scanned, built)

\* Lines 317-327.
start_private(message, api) == answer(api, Out("help", <<>>, <<>>), FALSE, None)

\* Lines 330-335.
info_private(message, api) ==
    IF message.from_user = None
    THEN answer(api, Out("no_user_data", <<>>, <<>>), FALSE, None)
    ELSE answer(api, Out("user_report", format_user(message.from_user[1]), <<>>),
                FALSE, None)

info_group_replies_on_failure(message, api) ==
    LET r == build_chat_info(api, message.message_thread_id,
                             IsTrue(message.is_topic_message), Some(message))
        b == Built(r, message.message_thread_id, IsTrue(message.is_topic_message),
                   Some(message))
    IN IF r.raised # "none"
       THEN answer(api, Out("failure", <<>>, <<>>), FALSE, Some(b))
       ELSE answer(api, Out("chat_report", r.value, <<>>), FALSE, Some(b))

\* Lines 338-346.
info_group(message, api) ==
    LET r == build_chat_info(api, message.message_thread_id,
                             IsTrue(message.is_topic_message), Some(message))
        b == Built(r, message.message_thread_id, IsTrue(message.is_topic_message),
                   Some(message))
    IN IF r.raised # "none" THEN Done(<<>>, r.raised, FALSE, Some(b))
       ELSE answer(api, Out("chat_report", r.value, <<>>), FALSE, Some(b))

\* Lines 349-351: thread_id, is_topic_message and message keep their defaults.
info_channel(message, api) ==
    LET r == build_chat_info(api, None, FALSE, None)
        b == Built(r, None, FALSE, None)
    IN IF r.raised # "none" THEN Done(<<>>, r.raised, FALSE, Some(b))
       ELSE answer(api, Out("chat_report", r.value, <<>>), FALSE, Some(b))

\* Lines 354-364.
custom_emoji_id_private(message, api) ==
    LET ids == extract_custom_emoji_ids(message)
        unique_ids == unique(ids)
    IN IF ids = <<>> THEN Done(<<>>, "none", TRUE, None)
       ELSE IF Len(unique_ids) = 1
            THEN answer(api, Out("emoji_id", <<>>, unique_ids), TRUE, None)
            ELSE answer(api, Out("emoji_ids", <<>>, unique_ids), TRUE, None)

(***************************************************************************)
(* The handlers registered in main(), lines 376-385, per observer and in   *)
(* the order of registration: the handler, the command its Command filter  *)
(* asks for ("any" without such a filter) and the chat types its F.chat    *)
(* filter admits.                                                          *)
(***************************************************************************)
Reg(handler, command, chats) == [handler |-> handler, command |-> command, chats |-> chats]

Registered(observer) ==
    IF observer = "message"
    THEN << Reg("start_private", "start", {"private"}),
            Reg("info_private", "info", {"private"}),
            Reg("custom_emoji_id_private", "any", {"private"}),
            Reg("info_group", "info", {"group", "supergroup"}),
            Reg("info_channel", "info", {"channel"}) >>
    ELSE << Reg("info_channel", "info", ChatTypes) >>

Matches(reg, message) ==
    /\ message.chat.type \in reg.chats
    /\ reg.command = "any" \/ reg.command = message.command

DispatchAll(message) ==
    LET regs == Registered(message.observer)
        Hit(reg) == Matches(reg, message)
        hits == SelectSeq(regs, Hit)
    IN [i \in 1..Len(hits) |-> hits[i].handler]

\* The observer calls the first registered handler whose filters pass and no
\* other; the result is the sequence of handlers called.
Dispatch(message) ==
    LET regs == Registered(message.observer)
        hit == {i \in 1..Len(regs) : Matches(regs[i], message)}
    IN IF hit = {} THEN <<>>
       ELSE << regs[CHOOSE i \in hit : \A j \in hit : i <= j].handler >>

Call(handler, message, api) ==
    CASE handler = "start_private" -> start_private(message, api)
      [] handler = "info_private" -> info_private(message, api)
      [] handler = "custom_emoji_id_private" -> custom_emoji_id_private(message, api)
      [] handler = "info_group" -> info_group(message, api)
      [] handler = "info_channel" -> info_channel(message, api)

\* The handlers of `hs` run one after the other until one raises.
RECURSIVE RunAll(_, _, _)
RunAll(hs, message, api) ==
    IF hs = <<>> THEN Done(<<>>, "none", FALSE, None)
    ELSE LET first == Call(hs[1], message, api)
         IN IF first.raised # "none" \/ Len(hs) = 1 THEN first
            ELSE LET rest == RunAll(Tail(hs), message, api)
                 IN Done(first.sent \o rest.sent, rest.raised,
                         first.scanned \/ rest.scanned,
                         IF rest.built # None THEN rest.built ELSE first.built)

(***************************************************************************)
(* handle_error, lines 269-302.  The update of the error event is an       *)
(* Optional [attr, dump_raises, raw_len]: attr is the serializer the       *)
(* update offers ("model_dump", "dict" or "none"), dump_raises says that   *)
(* calling it raises, raw_len is the length of the text it gives.          *)
(***************************************************************************)
\* Cap of the serialized update, line 289.
DumpCap == 1500

\* Length of the prefix "Update: ", line 284.
PrefixLen == 8

Dump(kind, len) == [kind |-> kind, len |-> len]

update_dump_falls_back(update) ==
    IF update = None THEN Dump("none", 0)
    ELSE IF update[1].attr \in {"model_dump", "dict"}
         THEN IF update[1].dump_raises
              THEN Dump("str", PrefixLen + update[1].raw_len)
              ELSE Dump("structured", PrefixLen + update[1].raw_len)
         ELSE Dump("str", PrefixLen + update[1].raw_len)

\* Lines 275-286: update_dump stays "" when there is no update and when the
\* serializer raises.
update_dump(update) ==
    IF update = None THEN Dump("none", 0)
    ELSE IF update[1].attr \in {"model_dump", "dict"}
         THEN IF update[1].dump_raises
              THEN Dump("none", 0)
              ELSE Dump("structured", PrefixLen + update[1].raw_len)
         ELSE Dump("str", PrefixLen + update[1].raw_len)

\* Lines 288-298: the report names the exception and, when the preview is not
\* empty, holds it, cut to DumpCap characters plus the ellipsis.
error_report(exc, update) ==
    LET d == update_dump(update)
    IN [exc |-> exc,
        body |-> d.kind,
        body_len |-> IF d.len > DumpCap THEN DumpCap + 1 ELSE d.len,
        truncated |-> d.len > DumpCap]

handle_error_unhandled(exc, update, owner, send) ==
    LET n == notify_owner(owner, send)
    IN [returned |-> FALSE, raised |-> n.raised, notifyCalls |-> 1,
        attempts |-> n.attempts, delivered |-> n.delivered,
        report |-> error_report(exc, update)]

\* Lines 269-302: one call of notify_owner, then return True; an exception
\* leaving notify_owner leaves handle_error.
handle_error(exc, update, owner, send) ==
    LET n == notify_owner(owner, send)
    IN [returned |-> n.raised = "none", raised |-> n.raised, notifyCalls |-> 1,
        attempts |-> n.attempts, delivered |-> n.delivered,
        report |-> error_report(exc, update)]

(***************************************************************************)
(* The inputs of one update: the message, how the platform calls made for  *)
(* it end, and the update object handed to handle_error.                   *)
(***************************************************************************)
SeqsUpTo(S, n) == UNION {[1..k -> S] : k \in 0..n}

EntityKinds ==
    { Entity("custom_emoji", Some("A")), Entity("custom_emoji", Some("B")),
      Entity("custom_emoji", None), Entity("bold", None) }

TheUser == [id |-> 42, is_bot |-> "False"]

Chat(type) == [id |-> 1001, type |-> type]

Message(observer, type, command, from_user, entities, captions, is_topic, thread, reply) ==
    [observer |-> observer, chat |-> Chat(type), command |-> command,
     from_user |-> from_user, entities |-> entities,
     caption_entities |-> captions, is_topic_message |-> is_topic,
     message_thread_id |-> thread, reply_to_message |-> reply]

Replies ==
    { None,
      Some([forum_topic_created |-> None]),
      Some([forum_topic_created |->
              Some([name |-> "News", icon_color |-> Some(7), icon_custom_emoji_id |-> None])]),
      Some([forum_topic_created |->
              Some([name |-> "", icon_color |-> None, icon_custom_emoji_id |-> Some("E")])]) }

\* A private message carries text entities or caption entities.
PrivateMessages ==
    { Message("message", "private", c, Some(TheUser), es, <<>>, "None", None, None) :
        c \in Commands, es \in SeqsUpTo(EntityKinds, MaxEntities) }
    \cup
    { Message("message", "private", c, Some(TheUser), <<>>, es, "None", None, None) :
        c \in Commands, es \in SeqsUpTo(EntityKinds, MaxCaptionEntities) }
    \cup
    { Message("message", "private", c, None, <<>>, <<>>, "None", None, None) :
        c \in Commands }

GroupMessages ==
    { Message("message", t, c, Some(TheUser), <<>>, <<>>, "None", None, None) :
        t \in {"group", "supergroup"}, c \in Commands }

\* Topics exist in supergroups only.
TopicMessages ==
    { Message("message", "supergroup", c, Some(TheUser), <<>>, <<>>, t, th, r) :
        c \in {"info"}, t \in {"None", "True"}, th \in {None, Some(7)}, r \in Replies }

ChannelMessages ==
    { Message(o, "channel", c, None, <<>>, <<>>, "None", None, None) :
        o \in {"message", "channel_post"}, c \in Commands }

NotCalled == Raised("not_called")

Api(get_chat, member_count, admins, ans) ==
    [get_chat |-> get_chat, member_count |-> member_count, admins |-> admins,
     answer |-> ans]

AdminCounts == {0, 1, AdminLimit, MaxAdmins}

TheChat(chat, is_forum) == [id |-> chat.id, type |-> chat.type, is_forum |-> is_forum]

AnswerOutcomes == {"ok", "TelegramNetworkError"}

\* A call that is not reached is recorded as not called.
Reached(a) ==
    LET r == build_chat_info(a, None, FALSE, None)
        gotChat == a.get_chat.raised = "none"
        gotCount == gotChat /\ safe_get_member_count(a.member_count).raised = "none"
    IN Api(a.get_chat,
           IF gotChat THEN a.member_count ELSE NotCalled,
           IF gotCount THEN a.admins ELSE NotCalled,
           IF r.raised = "none" THEN a.answer ELSE "not_called")

IsForumValues == {"True", "False", "None"}

GetChatFailures == { Raised(k) : k \in {"TelegramBadRequest", "TelegramNetworkError"} }

MemberCountOutcomes == {Returned(Some(5))} \cup { Raised(k) : k \in TelegramErrors }

AdminsOutcomes ==
    { Returned([i \in 1..n |-> i]) : n \in AdminCounts } \cup { Raised(k) : k \in TelegramErrors }

\* How the platform calls of a chat-info request end, every combination:
\* the inputs of the specification of the report.
ReportApis(message) ==
    { Reached(Api(g, m, a, s)) :
        g \in { Returned(Some(TheChat(message.chat, f))) : f \in IsForumValues }
              \cup GetChatFailures,
        m \in MemberCountOutcomes,
        a \in AdminsOutcomes,
        s \in AnswerOutcomes }

BotMemberCountOutcomes ==
    { Returned(Some(5)), Raised("TelegramForbiddenError"), Raised("TelegramNetworkError") }

BotAdminsOutcomes == { Returned(<<1>>), Raised("TelegramNetworkError") }

\* The same with one representative of each way a fetch ends: the inputs of
\* the specification of the whole bot.
BotApis(message) ==
    { Reached(Api(g, m, a, s)) :
        g \in { Returned(Some(TheChat(message.chat, f))) : f \in {"False"} }
              \cup GetChatFailures,
        m \in BotMemberCountOutcomes,
        a \in BotAdminsOutcomes,
        s \in AnswerOutcomes }

NoApis == { Api(NotCalled, NotCalled, NotCalled, "not_called") }

AnswerApis == { Api(NotCalled, NotCalled, NotCalled, s) : s \in AnswerOutcomes }

\* rich: the request is drawn with ReportApis, else with BotApis.
ApisFor(message, rich) ==
    LET hs == Dispatch(message)
    IN IF hs = <<>> THEN NoApis
       ELSE IF \E i \in 1..Len(hs) : hs[i] \in {"info_group", "info_channel"}
            THEN IF rich THEN ReportApis(message) ELSE BotApis(message)
            ELSE AnswerApis

TheUpdate == Some([attr |-> "model_dump", dump_raises |-> FALSE, raw_len |-> DumpCap])

Updates ==
    { None, TheUpdate }
    \cup { Some([attr |-> a, dump_raises |-> TRUE, raw_len |-> 0]) : a \in {"model_dump", "dict"} }
    \cup { Some([attr |-> a, dump_raises |-> FALSE, raw_len |-> DumpCap - PrefixLen]) :
             a \in {"model_dump", "dict", "none"} }

HandlerSendOutcomes == {"ok", "TelegramNetworkError"}

NoSend == {"not_called"}

\* How bot.send_message ends inside handle_error.
ErrorSendOutcomes(owner) ==
    IF Truthy(owner) THEN HandlerSendOutcomes ELSE NoSend

(***************************************************************************)
(* The supervisor loop of main(), lines 391-402.                           *)
(***************************************************************************)
\* asyncio.sleep(5), line 402.
BackoffSeconds == 5

NoCycle == [notifyCalls |-> 0, attempts |-> 0, waits |-> <<>>]

main_gives_up(outcome) ==
    IF outcome = "none" THEN "polling" ELSE "stopped"

\* Where main() goes when start_polling ends: it returned ("none": the loop
\* calls it again), raised KeyboardInterrupt (break) or raised an Exception
\* (the except branch that notifies, sleeps and loops).
main(outcome) ==
    IF outcome = "none" THEN "polling"
    ELSE IF outcome = "KeyboardInterrupt" THEN "stopped"
    ELSE IF IsException(outcome) THEN "notify"
    ELSE "stopped"

Init ==
    /\ OWNER_ID_RAW \in OwnerRaws
    /\ OWNER_ID = ParseOwnerId(OWNER_ID_RAW)
    /\ pc = "polling"
    /\ polls = 1
    /\ cycle = NoCycle
    /\ interrupted = FALSE
    /\ stoppedIn = "none"
    /\ last = None
    /\ prevRaised = FALSE

\* Exceptions that escape dp.start_polling.
StreamFailures == {"RuntimeError", "TelegramNetworkError"}

\* dp.start_polling returns: the loop calls it again at once.
StartPollingReturns ==
    /\ pc = "polling"
    /\ polls < MaxPolls
    /\ pc' = main("none")
    /\ polls' = polls + 1
    /\ last' = None
    /\ prevRaised' = FALSE
    /\ UNCHANGED <<OWNER_ID_RAW, OWNER_ID, cycle, interrupted, stoppedIn>>

\* An exception escapes dp.start_polling.
StartPollingRaises ==
    /\ pc = "polling"
    /\ polls < MaxPolls
    /\ \E exc \in StreamFailures :
          /\ pc' = main(exc)
          /\ stoppedIn' = IF main(exc) = "stopped" THEN "polling" ELSE stoppedIn
    /\ cycle' = NoCycle
    /\ last' = None
    /\ prevRaised' = FALSE
    /\ UNCHANGED <<OWNER_ID_RAW, OWNER_ID, polls, interrupted>>

\* Ctrl+C while start_polling runs: except KeyboardInterrupt, break.
InterruptWhilePolling ==
    /\ pc = "polling"
    /\ pc' = main("KeyboardInterrupt")
    /\ interrupted' = TRUE
    /\ stoppedIn' = IF main("KeyboardInterrupt") = "stopped" THEN "polling" ELSE stoppedIn
    /\ cycle' = IF main("KeyboardInterrupt") = "notify" THEN NoCycle ELSE cycle
    /\ last' = None
    /\ prevRaised' = FALSE
    /\ UNCHANGED <<OWNER_ID_RAW, OWNER_ID, polls>>

\* Line 400: await notify_owner(bot, msg).  A KeyboardInterrupt raised while
\* the message is sent is no Exception: it leaves notify_owner and main().
NotifyOwner ==
    /\ pc = "notify"
    /\ \E send \in (IF Truthy(OWNER_ID) THEN SendOutcomes ELSE NoSend) :
          LET n == notify_owner(OWNER_ID, send)
          IN /\ interrupted' = (interrupted \/ send = "KeyboardInterrupt")
             /\ cycle' = [cycle EXCEPT !.notifyCalls = @ + 1, !.attempts = @ + n.attempts]
             /\ pc' = IF n.raised = "none" THEN "sleep" ELSE "stopped"
             /\ stoppedIn' = IF n.raised = "none" THEN stoppedIn ELSE "notify"
    /\ UNCHANGED <<OWNER_ID_RAW, OWNER_ID, polls, last, prevRaised>>

\* Line 402: the sleep ends and the loop calls start_polling again.
BackoffEnds ==
    /\ pc = "sleep"
    /\ cycle' = [cycle EXCEPT !.waits = Append(@, BackoffSeconds)]
    /\ pc' = "polling"
    /\ polls' = polls + 1
    /\ UNCHANGED <<OWNER_ID_RAW, OWNER_ID, interrupted, stoppedIn, last, prevRaised>>

\* Ctrl+C during the sleep: outside the try, so it leaves main().
InterruptWhileSleeping ==
    /\ pc = "sleep"
    /\ interrupted' = TRUE
    /\ pc' = "stopped"
    /\ stoppedIn' = "sleep"
    /\ UNCHANGED <<OWNER_ID_RAW, OWNER_ID, polls, cycle, last, prevRaised>>

(***************************************************************************)
(* One update, handled to completion while start_polling runs: it is       *)
(* dispatched (lines 376-385); an exception leaving the handler goes to    *)
(* the errors observer, where handle_error is registered (line 386).  The  *)
(* exception counts as handled when handle_error returns True; otherwise   *)
(* it leaves start_polling.                                                *)
(***************************************************************************)
Handled(message, api, hs, r, update, he) ==
    [message |-> message, api |-> api, invoked |-> hs, scanned |-> r.scanned,
     sent |-> r.sent, raised |-> r.raised, built |-> r.built, update |-> update,
     he |-> he]

HandleUpdate(messages, rich, updates) ==
    /\ pc = "polling"
    /\ last = None
    /\ \E message \in messages : \E api \in ApisFor(message, rich) :
          LET hs == Dispatch(message)
              r == RunAll(hs, message, api)
          IN IF r.raised = "none"
             THEN /\ last' = Some(Handled(message, api, hs, r, None, None))
                  /\ UNCHANGED <<pc, cycle, stoppedIn>>
             ELSE \E update \in updates : \E send \in ErrorSendOutcomes(OWNER_ID) :
                     LET he == handle_error(r.raised, update, OWNER_ID, send)
                         escapes == he.raised # "none" \/ ~he.returned
                         exc == IF he.raised # "none" THEN he.raised ELSE r.raised
                     IN /\ last' = Some(Handled(message, api, hs, r, update, Some(he)))
                        /\ pc' = IF escapes THEN main(exc) ELSE pc
                        /\ cycle' = IF escapes THEN NoCycle ELSE cycle
                        /\ stoppedIn' = IF escapes /\ main(exc) = "stopped"
                                        THEN "polling" ELSE stoppedIn
    /\ UNCHANGED <<OWNER_ID_RAW, OWNER_ID, polls, interrupted, prevRaised>>

\* The update is done with; start_polling goes on to the next one.
NextUpdate ==
    /\ pc = "polling"
    /\ last # None
    /\ last' = None
    /\ prevRaised' = (last[1].raised # "none")
    /\ UNCHANGED <<OWNER_ID_RAW, OWNER_ID, pc, polls, cycle, interrupted, stoppedIn>>

Supervisor ==
    \/ StartPollingReturns
    \/ StartPollingRaises
    \/ InterruptWhilePolling
    \/ NotifyOwner
    \/ BackoffEnds
    \/ InterruptWhileSleeping
    \/ NextUpdate

BotMessages == PrivateMessages \cup GroupMessages \cup ChannelMessages

\* The whole bot: every kind of message, every way handle_error can go.
BotUpdate == HandleUpdate(BotMessages, FALSE, Updates)

Next == Supervisor \/ BotUpdate

Spec == Init /\ [][Next]_vars

ReportMessages == GroupMessages \cup TopicMessages \cup ChannelMessages

ReportUpdates == {TheUpdate}

\* The chat-info requests with every combination of fetch results.
ReportUpdate == HandleUpdate(ReportMessages, TRUE, ReportUpdates)

NextReport == Supervisor \/ ReportUpdate

SpecReport == Init /\ [][NextReport]_vars

(***************************************************************************)
(* Properties of the supervisor and of the error reporter, under Spec.     *)
(***************************************************************************)
\* C1: every exception other than the operator interrupt that escapes
\* start_polling takes main() to its except branch, which calls notify_owner
\* exactly once (at most one send), then waits exactly once, for 5, then calls
\* start_polling again; the loop is left only by an operator interrupt, never
\* by a stream failure.
C1_SupervisorRestart ==
    [][ /\ (pc = "polling" /\ pc' # "polling" /\ ~interrupted')
            => (pc' = "notify" /\ cycle' = NoCycle /\ polls' = polls)
        /\ (pc = "notify" /\ pc' # "notify" /\ ~interrupted')
            => /\ pc' = "sleep"
               /\ cycle'.notifyCalls = 1
               /\ cycle'.attempts <= 1
               /\ cycle'.waits = <<>>
               /\ polls' = polls
        /\ (pc = "sleep" /\ pc' # "sleep" /\ ~interrupted')
            => /\ pc' = "polling"
               /\ cycle'.notifyCalls = 1
               /\ cycle'.waits = <<5>>
               /\ polls' = polls + 1
        /\ (pc' = "stopped" => interrupted')
      ]_vars

\* After a failure, one notification and one wait of 5, start_polling runs
\* again and an update is answered.
C1_Witness ==
    /\ pc = "polling"
    /\ polls = 3
    /\ cycle.notifyCalls = 1
    /\ cycle.waits = <<5>>
    /\ ~interrupted
    /\ last # None
    /\ last[1].sent # <<>>

\* C2: a KeyboardInterrupt raised while start_polling runs, while the
\* notification is sent or during the backoff sleep ends the loop of main():
\* the supervisor is stopped, stays stopped, and start_polling is not called
\* again.
C2_InterruptStops ==
    [][ /\ interrupted' => pc' = "stopped"
        /\ pc = "stopped" => (pc' = "stopped" /\ polls' = polls)
      ]_vars

\* The interrupt arrived while the operator was being notified.
C2_Witness ==
    /\ interrupted
    /\ pc = "stopped"
    /\ stoppedIn = "notify"
    /\ cycle.attempts = 1

\* The operator identity is absent or not a number.
OwnerAbsentOrNonNumeric ==
    \/ OWNER_ID_RAW = None
    \/ OWNER_ID_RAW[1] = <<>>
    \/ \E i \in 1..Len(OWNER_ID_RAW[1]) : OWNER_ID_RAW[1][i] \in {"a", "b"}

\* C5: handle_error never raises and returns True, whether the update could be
\* serialized or not and whether the send to the operator succeeded or not;
\* a call of notify_owner makes at most one send, a failed send is not
\* repeated, and without a numeric operator identity there is no send at all.
C5_ReporterNeverRaises ==
    /\ cycle.attempts <= cycle.notifyCalls
    /\ OwnerAbsentOrNonNumeric => cycle.attempts = 0
    /\ (last # None /\ last[1].he # None) =>
          LET he == last[1].he[1]
          IN /\ he.raised = "none"
             /\ he.returned
             /\ he.notifyCalls = 1
             /\ he.attempts <= 1
             /\ OwnerAbsentOrNonNumeric => he.attempts = 0

\* handle_error ran for an update whose serializer raised, and the send to
\* the operator failed as well.
C5_Witness ==
    /\ last # None
    /\ last[1].he # None
    /\ last[1].update # None
    /\ last[1].update[1].dump_raises
    /\ last[1].he[1].attempts = 1
    /\ ~last[1].he[1].delivered
    /\ pc = "polling"

\* C6: when the handler of an update raises, handle_error is called for it
\* and makes one notify_owner call (one send when the operator identity is
\* set), and the supervisor does not move: start_polling keeps running, with
\* no backoff and no restart.
C6_HandlerFailureIsolated ==
    [][ (last = None /\ last' # None /\ last'[1].raised # "none") =>
           /\ last'[1].he # None
           /\ last'[1].he[1].notifyCalls = 1
           /\ last'[1].he[1].returned
           /\ Truthy(OWNER_ID) => last'[1].he[1].attempts = 1
           /\ pc' = "polling"
           /\ polls' = polls
           /\ cycle' = cycle
           /\ stoppedIn' = stoppedIn
      ]_vars

\* An update is handled by its handler right after one whose handler raised,
\* in the first run of start_polling.
C6_Witness ==
    /\ prevRaised
    /\ last # None
    /\ last[1].invoked # <<>>
    /\ last[1].raised = "none"
    /\ last[1].sent # <<>>
    /\ polls = 1
    /\ cycle = NoCycle

HasCustomEmoji(message) ==
    \E i \in 1..Len(message.entities \o message.caption_entities) :
        (message.entities \o message.caption_entities)[i].type = "custom_emoji"

\* C7: an update is given to one handler or to none, never to two; a private
\* /start or /info is not scanned for custom emoji; an update no handler
\* takes, and a private message with no command and no custom emoji, sends
\* nothing and raises nothing.
C7_UpdateRouting ==
    last # None =>
       LET u == last[1]
       IN /\ Len(u.invoked) <= 1
          /\ (u.message.chat.type = "private" /\ u.message.command \in {"start", "info"})
                => ~u.scanned
          /\ u.invoked = <<>> => (u.sent = <<>> /\ u.raised = "none" /\ u.he = None)
          /\ (/\ u.message.chat.type = "private"
              /\ u.message.command = "none"
              /\ ~HasCustomEmoji(u.message))
                => (u.sent = <<>> /\ u.raised = "none" /\ u.he = None)

\* A private /start that carries a custom emoji went to start_private alone.
C7_Witness ==
    /\ last # None
    /\ last[1].message.chat.type = "private"
    /\ last[1].message.command = "start"
    /\ HasCustomEmoji(last[1].message)
    /\ last[1].invoked = <<"start_private">>
    /\ ~last[1].scanned

\* The update handled last was a chat-info request whose get_chat failed.
GetChatFailed(u) ==
    /\ u.built # None
    /\ u.api.get_chat.raised # "none"

SerializerRaised(u) ==
    /\ u.he # None
    /\ u.update # None
    /\ u.update[1].attr \in {"model_dump", "dict"}
    /\ u.update[1].dump_raises

\* C10 as stated: when the structured serialization of the update raises, the
\* report still holds an update body (its plain textual representation).
C10_BodyDespiteFailure ==
    (last # None /\ SerializerRaised(last[1])) => last[1].he[1].report.body # "none"

\* C10, amended: when the structured serialization of the update raises, the
\* report is sent without an update body; the plain textual representation
\* is used exactly when the update offers neither model_dump nor dict.
C10_BodyDroppedOnFailure ==
    (last # None /\ last[1].he # None) =>
        LET u == last[1]
            report == u.he[1].report
        IN /\ SerializerRaised(u) =>
                (report.body = "none" /\ report.body_len = 0 /\ u.he[1].notifyCalls = 1)
           /\ report.body = "str" <=> (u.update # None /\ u.update[1].attr = "none")
           /\ (u.update # None /\ ~u.update[1].dump_raises) => report.body # "none"

\* The serializer raised and the report, without a body, reached the operator.
C10_Witness ==
    /\ last # None
    /\ SerializerRaised(last[1])
    /\ last[1].he[1].delivered
    /\ last[1].he[1].report.body = "none"

(***************************************************************************)
(* Properties of the report of build_chat_info, under SpecReport.          *)
(***************************************************************************)
HasLine(lines, tags) == \E i \in 1..Len(lines) : lines[i].tag \in tags

\* C3: when get_chat succeeds, build_chat_info returns a report however the
\* member-count fetch and the admin-list fetch end; a failed member-count
\* fetch leaves out the member-count line, a failed admin-list fetch gives the
\* line "admins unavailable", and both fetches are made.
C3_PartialFailureTolerance ==
    (last # None /\ last[1].built # None /\ last[1].api.get_chat.raised = "none") =>
        LET u == last[1]
        IN /\ u.built[1].raised = "none"
           /\ u.api.member_count.raised # "not_called"
           /\ u.api.admins.raised # "not_called"
           /\ u.api.member_count.raised # "none"
                 => ~HasLine(u.built[1].value, {"member_count"})
           /\ u.api.admins.raised # "none"
                 => HasLine(u.built[1].value, {"admins_unavailable"})

\* C8: the admins line reads "unavailable" only when the admin-list fetch
\* failed; a list fetched and empty gives another line.
C8_EmptyIsNotUnavailable ==
    (last # None /\ last[1].built # None /\ last[1].built[1].raised = "none") =>
        (HasLine(last[1].built[1].value, {"admins_unavailable"})
            => last[1].api.admins.raised # "none")

TopicTags == {"topic", "topic_details_unavailable", "topic_guidance"}

TopicBlockTags == TopicTags \cup {"thread_id", "icon_color", "icon_emoji"}

\* The lines of the report from the first topic line on.
RECURSIVE TopicPart(_)
TopicPart(lines) ==
    IF lines = <<>> \/ lines[1].tag \in TopicBlockTags THEN lines
    ELSE TopicPart(Tail(lines))

\* C9: the report of a forum-enabled chat ends with exactly one of: the topic
\* block (name, then thread id) when build_chat_info is called for a topic
\* message with a thread id and the replied-to message carries the
\* topic-created data; the placeholder with the thread id when that data is
\* missing; the guidance line when the call is not for a topic message or has
\* no thread id.  The report of any other chat has none of them.
C9_TopicOutput ==
    (last # None /\ last[1].built # None /\ last[1].built[1].raised = "none") =>
        LET b == last[1].built[1]
            chat == last[1].api.get_chat.value[1]
            part == TopicPart(b.value)
            head == SubSeq(b.value, 1, Len(b.value) - Len(part))
            topics == SelectSeq(b.value, LAMBDA l : l.tag \in TopicTags)
            created == IF b.message # None /\ b.message[1].reply_to_message # None
                       THEN b.message[1].reply_to_message[1].forum_topic_created
                       ELSE None
        IN /\ ~HasLine(head, TopicBlockTags)
           /\ IF chat.is_forum # "True" THEN part = <<>>
              ELSE /\ Len(topics) = 1
                   /\ part[1] = topics[1]
                   /\ IF b.is_topic_message /\ b.thread_id # None
                      THEN IF created # None
                           THEN /\ Len(part) >= 2
                                /\ part[1].tag = "topic"
                                /\ part[1].text = (IF created[1].name = "" THEN "unnamed"
                                                   ELSE created[1].name)
                                /\ part[2].tag = "thread_id"
                                /\ part[2].n = b.thread_id[1]
                           ELSE part = << Line("topic_details_unavailable",
                                               b.thread_id[1], <<>>, 0, "") >>
                      ELSE part = << Line("topic_guidance", 0, <<>>, 0, "") >>

\* A forum chat, a topic message with a thread id, no topic-created data: the
\* report ends with the placeholder.
C9_Witness ==
    /\ last # None
    /\ last[1].built # None
    /\ last[1].built[1].raised = "none"
    /\ last[1].api.get_chat.value[1].is_forum = "True"
    /\ last[1].built[1].is_topic_message
    /\ last[1].built[1].thread_id = Some(7)
    /\ last[1].message.reply_to_message = Some([forum_topic_created |-> None])
    /\ HasLine(last[1].built[1].value, {"topic_details_unavailable"})
    /\ last[1].sent # <<>>

====
